---------------------------- MODULE Spec2Model ----------------------------
(***************************************************************************)
(* Model of the Food Delivery API (src/main.py, src/schemas.py).          *)
(*                                                                         *)
(* State: the store handle `db`, the three document collections           *)
(* (restaurant, menuitem, order), the set of collection names the store   *)
(* lists, the last HTTP response, and, for the interleaved view of        *)
(* POST /seed, the position and locals of each in-flight seed request.    *)
(*                                                                         *)
(* Money is fixed point: one unit is a thousandth of a currency unit      *)
(* (14.99 is 14990), so that rounding to two decimals does something.     *)
(***************************************************************************)
EXTENDS Integers, Sequences, FiniteSets, TLC

VARIABLES db, collections, restaurant, menuitem, order, response, procs

vars == <<db, collections, restaurant, menuitem, order, response, procs>>

stores == <<collections, restaurant, menuitem, order>>

-----------------------------------------------------------------------------
(* Bounds of the model *)

\* orders kept in the order collection
MaxOrders == 1

\* items in one create-order payload
MaxItems == 2

\* documents of each catalog collection that exist before the first request
MaxPre == 2

\* POST /seed requests in flight at once
NProcs == 2

-----------------------------------------------------------------------------
(* Identifiers *)

Min(a, b) == IF a < b THEN a ELSE b

HexDigit == <<"0", "1", "2", "3", "4", "5", "6", "7", "8", "9",
              "a", "b", "c", "d", "e", "f">>

CollectionNames == {"restaurant", "menuitem", "order"}

\* the store assigns the n-th document of a collection its ObjectId
ObjectIdOf(coll, n) == [coll |-> coll, n |-> n]

\* str(ObjectId): the hexadecimal text of the identifier
StrOid(oid) ==
    (CASE oid.coll = "restaurant" -> "5e"
       [] oid.coll = "menuitem"   -> "5f"
       [] oid.coll = "order"      -> "60")
    \o HexDigit[(oid.n \div 16) + 1] \o HexDigit[(oid.n % 16) + 1]

\* the strings bson's ObjectId() parses
WellFormedIds == { StrOid(ObjectIdOf(c, n)) : c \in CollectionNames, n \in 0..31 }

\* ObjectId(s) raises on any other string
ObjectIdParses(s) == s \in WellFormedIds

\* _stringify_id: the document with its _id as text
stringify_id(doc) == [doc EXCEPT !._id = StrOid(doc._id)]

StringifyAll(docs) == [i \in 1..Len(docs) |-> stringify_id(docs[i])]

-----------------------------------------------------------------------------
(* The store (database.py) *)

\* create_document(name, data): one insert; the store assigns the _id
create_document(coll, name, data) ==
    Append(coll, [_id |-> ObjectIdOf(name, Len(coll) + 1)] @@ data)

\* the text create_document returns: str(inserted_id)
inserted_id(coll, name) == StrOid(ObjectIdOf(name, Len(coll) + 1))

\* get_documents(name, filter) with an equality filter on restaurant_id
get_documents(coll, rid) == SelectSeq(coll, LAMBDA d : d.restaurant_id = rid)

\* "x" not in collections or db["x"].count_documents({}) == 0
NeedsSeed(names, name, coll) == name \notin names \/ Len(coll) = 0

-----------------------------------------------------------------------------
(* Static endpoints *)

Respond(op, status, body) == [op |-> op, status |-> status, body |-> body]

\* GET /
read_root ==
    /\ response' = Respond("read_root", 200, "Food Delivery API is running")
    /\ UNCHANGED <<db, stores, procs>>

\* GET /test: never raises; list_collection_names may fail and is caught
test_database ==
    /\ \E listing_ok \in BOOLEAN :
          response' = Respond("test_database", 200,
              IF db = "None"
              THEN [database |-> "Available but not initialized",
                    connection_status |-> "Not Connected",
                    collections |-> {}]
              ELSE IF listing_ok
                   THEN [database |-> "Connected & Working",
                         connection_status |-> "Connected",
                         collections |-> collections]
                   ELSE [database |-> "Connected but Error",
                         connection_status |-> "Connected",
                         collections |-> {}])
    /\ UNCHANGED <<db, stores, procs>>

SchemaCollections == <<"user", "product", "restaurant", "menuitem", "order">>

\* GET /schema
get_schema ==
    /\ response' = Respond("get_schema", 200, SchemaCollections)
    /\ UNCHANGED <<db, stores, procs>>

-----------------------------------------------------------------------------
(* Catalog queries *)

\* GET /restaurants
list_restaurants ==
    /\ response' = IF db = "None"
                   THEN Respond("list_restaurants", 500, "Internal Server Error")
                   ELSE Respond("list_restaurants", 200, StringifyAll(restaurant))
    /\ UNCHANGED <<db, stores, procs>>

\* the path parameters tried: identifiers of restaurants, a well-formed
\* identifier of no restaurant, and two strings ObjectId() rejects
MenuQueries ==
    { StrOid(ObjectIdOf("restaurant", n)) : n \in 1..3 }
        \cup { StrOid(ObjectIdOf("order", 1)), "not-an-id", "" }

\* list_menu as it would be if a failed ObjectId() parse were not swallowed
MenuResponseMalformedRejected(rid) ==
    IF db = "None" \/ ~ObjectIdParses(rid)
    THEN Respond("list_menu", 500, "Internal Server Error")
    ELSE Respond("list_menu", 200, StringifyAll(get_documents(menuitem, rid)))

\* the body of list_menu: the ObjectId() parse is tried, its result dropped
\* and its failure swallowed; the filter is the raw path string
MenuResponse(rid) ==
    LET parsed == IF ObjectIdParses(rid) THEN "parsed" ELSE "pass"
    IN  IF db = "None"
        THEN Respond("list_menu", 500, "Internal Server Error")
        ELSE Respond("list_menu", 200, StringifyAll(get_documents(menuitem, rid)))

\* GET /restaurants/{restaurant_id}/menu
list_menu(rid) ==
    /\ response' = MenuResponse(rid)
    /\ UNCHANGED <<db, stores, procs>>

-----------------------------------------------------------------------------
(* Orders *)

\* quantities and unit prices a client may send (prices in thousandths)
Quantities == {0, 1, 2}

Prices == {-125, 14990}

RawItems == [quantity : Quantities, price : Prices]

ItemLists(n) == UNION { [1..k -> RawItems] : k \in 0..n }

\* the request bodies of POST /orders
Payloads == [items : ItemLists(MaxItems)]

\* the request bodies tried beside the catalog operations
CatalogPayloads == [items : ItemLists(1)]

\* OrderItem: quantity: int = Field(1, ge=1); price: float
OrderItemValid(item) == item.quantity >= 1

\* CreateOrder: items: List[OrderItem]
CreateOrderValid(payload) ==
    \A i \in 1..Len(payload.items) : OrderItemValid(payload.items[i])

\* sum(item.price * item.quantity for item in payload.items)
RECURSIVE sum(_)
sum(items) ==
    IF items = <<>> THEN 0
    ELSE LET n == Len(items)
         IN  sum(SubSeq(items, 1, n - 1)) + items[n].price * items[n].quantity

\* round(x, 2) on thousandths: the nearest hundredth, a tie to the even one
round2(x) ==
    LET q == x \div 10
        r == x % 10
    IN  IF r < 5 THEN q * 10
        ELSE IF r > 5 THEN (q + 1) * 10
        ELSE IF q % 2 = 0 THEN q * 10 ELSE (q + 1) * 10

\* the total as it would be if the quantity were left out of the sum
order_total_prices_only(items) ==
    round2(sum([i \in 1..Len(items) |-> [items[i] EXCEPT !.quantity = 1]]))

\* total=round(total, 2)
order_total(items) == round2(sum(items))

\* Order(..., items=payload.items, total=..., status="pending")
OrderDoc(payload) ==
    [items |-> payload.items, total |-> order_total(payload.items),
     status |-> "pending"]

\* POST /orders: the body is validated before the handler runs
create_order(payload) ==
    IF ~CreateOrderValid(payload)
    THEN /\ response' = Respond("create_order", 422, "validation")
         /\ UNCHANGED <<db, stores, procs>>
    ELSE IF db = "None"
    THEN /\ response' = Respond("create_order", 500, "Database not configured")
         /\ UNCHANGED <<db, stores, procs>>
    ELSE /\ Len(order) < MaxOrders
         /\ order' = create_document(order, "order", OrderDoc(payload))
         /\ collections' = collections \cup {"order"}
         /\ response' = Respond("create_order", 200,
                [order_id |-> inserted_id(order, "order"),
                 status |-> "pending",
                 total |-> OrderDoc(payload).total])
         /\ UNCHANGED <<db, restaurant, menuitem, procs>>

-----------------------------------------------------------------------------
(* Seeding *)

SampleRestaurants ==
    << [name |-> "Pasta Palace", cuisine |-> "Italian"],
       [name |-> "Sushi Express", cuisine |-> "Japanese"],
       [name |-> "Spice Route", cuisine |-> "Indian"] >>

\* the links as they would be if every item went to the first restaurant
MenuLinksAllFirst(restaurants) ==
    LET first == restaurants[1]._id
    IN  <<first, first, first, first>>

\* the links as they would be if the three samples were taken to exist
MenuLinksNoFallback(restaurants) ==
    <<restaurants[1]._id, restaurants[1]._id,
      ObjectIdOf("restaurant", 2), ObjectIdOf("restaurant", 3)>>

\* first, first, second, third, falling back to first
MenuLinks(restaurants) ==
    LET first  == restaurants[1]._id
        second == IF Len(restaurants) > 1 THEN restaurants[2]._id ELSE first
        third  == IF Len(restaurants) > 2 THEN restaurants[3]._id ELSE first
    IN  <<first, first, second, third>>

SampleMenuNames ==
    <<"Spaghetti Carbonara", "Margherita Pizza", "Salmon Nigiri (6)",
      "Chicken Tikka Masala">>

SampleMenuPrices == <<14990, 12500, 11990, 13750>>

\* items = [MenuItem(restaurant_id=str(first), ...), ...]
SampleMenuItems(restaurants) ==
    [i \in 1..Len(SampleMenuNames) |->
        [restaurant_id |-> StrOid(MenuLinks(restaurants)[i]),
         name |-> SampleMenuNames[i],
         price |-> SampleMenuPrices[i]]]

\* for d in docs: create_document(name, d), the first k of them
RECURSIVE InsertAll(_, _, _, _)
InsertAll(coll, name, docs, k) ==
    IF k = 0 THEN coll
    ELSE create_document(InsertAll(coll, name, docs, k - 1), name, docs[k])

\* the restaurant guard as it would be if it were not there
RestaurantsToSeedAlways(names, coll) == SampleRestaurants

\* if "restaurant" not in collections or count == 0: the three samples
RestaurantsToSeed(names, coll) ==
    IF NeedsSeed(names, "restaurant", coll) THEN SampleRestaurants ELSE <<>>

\* the menu guard as it would be if it tested the restaurants' emptiness
MenuItemsToSeedWrongGuard(names, coll, restaurants) ==
    IF NeedsSeed(names, "restaurant", restaurants) /\ restaurants # <<>>
    THEN SampleMenuItems(restaurants) ELSE <<>>

\* if "menuitem" not in collections or count == 0: if restaurants: the four
MenuItemsToSeed(names, coll, restaurants) ==
    IF NeedsSeed(names, "menuitem", coll) /\ restaurants # <<>>
    THEN SampleMenuItems(restaurants) ELSE <<>>

\* create_document calls one seed request can make
SeedCalls == Len(SampleRestaurants) + Len(SampleMenuNames)

\* seed_data past its handle check. `budget` is the number of
\* create_document calls that succeed before one raises (SeedCalls: none
\* raises); what was written before the failure stays written, and the
\* request answers 500.
seed_body(budget) ==
    LET names  == collections
        rs     == RestaurantsToSeed(names, restaurant)
        kr     == Min(Len(rs), budget)
        newR   == InsertAll(restaurant, "restaurant", rs, kr)
        ms     == IF kr < Len(rs) THEN <<>>
                  ELSE MenuItemsToSeed(names, menuitem, newR)
        km     == Min(Len(ms), budget - kr)
        newM   == InsertAll(menuitem, "menuitem", ms, km)
        raised == kr < Len(rs) \/ km < Len(ms)
    IN  /\ restaurant' = newR
        /\ menuitem' = newM
        /\ collections' = collections
               \cup (IF kr > 0 THEN {"restaurant"} ELSE {})
               \cup (IF km > 0 THEN {"menuitem"} ELSE {})
        /\ response' = IF raised
                       THEN Respond("seed", 500, "Internal Server Error")
                       ELSE Respond("seed", 200,
                                [restaurants |-> kr, menuitem |-> km])
        /\ UNCHANGED <<db, order, procs>>

\* POST /seed as it would be without its handle check
seed_data_unchecked(budget) == seed_body(budget)

\* POST /seed, the whole request
seed_data(budget) ==
    IF db = "None"
    THEN /\ response' = Respond("seed", 500, "Database not configured")
         /\ UNCHANGED <<db, stores, procs>>
    ELSE seed_body(budget)

-----------------------------------------------------------------------------
(* POST /seed step by step: each store call is a step of its own, so that    *)
(* requests handled at the same time interleave between them.                *)

Idle == [pc |-> "idle", names |-> {}, todo |-> <<>>,
         restaurants |-> 0, menuitem |-> 0]

\* if db is None: raise; collections = db.list_collection_names()
SeedBegin(p) ==
    /\ procs[p].pc = "idle"
    /\ IF db = "None"
       THEN /\ response' = Respond("seed", 500, "Database not configured")
            /\ UNCHANGED <<db, stores, procs>>
       ELSE /\ procs' = [procs EXCEPT ![p] =
                            [Idle EXCEPT !.pc = "check_restaurants",
                                         !.names = collections]]
            /\ UNCHANGED <<db, stores, response>>

\* the restaurant guard: may read db["restaurant"].count_documents({})
SeedCheckRestaurants(p) ==
    /\ procs[p].pc = "check_restaurants"
    /\ procs' = [procs EXCEPT
                    ![p].pc = "insert_restaurants",
                    ![p].todo = RestaurantsToSeed(procs[p].names, restaurant)]
    /\ UNCHANGED <<db, stores, response>>

\* one turn of: for r in sample_restaurants: create_document("restaurant", r)
SeedInsertRestaurant(p) ==
    /\ procs[p].pc = "insert_restaurants"
    /\ procs[p].todo # <<>>
    /\ restaurant' = create_document(restaurant, "restaurant", Head(procs[p].todo))
    /\ collections' = collections \cup {"restaurant"}
    /\ procs' = [procs EXCEPT ![p].todo = Tail(procs[p].todo),
                              ![p].restaurants = procs[p].restaurants + 1]
    /\ UNCHANGED <<db, menuitem, order, response>>

\* the menu guard: may read db["menuitem"].count_documents({})
SeedCheckMenu(p) ==
    /\ procs[p].pc = "insert_restaurants"
    /\ procs[p].todo = <<>>
    /\ procs' = [procs EXCEPT ![p].pc =
                    IF NeedsSeed(procs[p].names, "menuitem", menuitem)
                    THEN "find_restaurants" ELSE "return"]
    /\ UNCHANGED <<db, stores, response>>

\* restaurants = list(db["restaurant"].find()); if restaurants: items = [...]
SeedFindRestaurants(p) ==
    /\ procs[p].pc = "find_restaurants"
    /\ procs' = [procs EXCEPT
                    ![p].pc = "insert_menu",
                    ![p].todo = IF restaurant # <<>>
                                THEN SampleMenuItems(restaurant) ELSE <<>>]
    /\ UNCHANGED <<db, stores, response>>

\* one turn of: for i in items: create_document("menuitem", i)
SeedInsertMenuItem(p) ==
    /\ procs[p].pc = "insert_menu"
    /\ procs[p].todo # <<>>
    /\ menuitem' = create_document(menuitem, "menuitem", Head(procs[p].todo))
    /\ collections' = collections \cup {"menuitem"}
    /\ procs' = [procs EXCEPT ![p].todo = Tail(procs[p].todo),
                              ![p].menuitem = procs[p].menuitem + 1]
    /\ UNCHANGED <<db, restaurant, order, response>>

\* return {"seeded": created}
SeedReturn(p) ==
    /\ \/ procs[p].pc = "return"
       \/ procs[p].pc = "insert_menu" /\ procs[p].todo = <<>>
    /\ response' = Respond("seed", 200,
                       [restaurants |-> procs[p].restaurants,
                        menuitem |-> procs[p].menuitem])
    /\ procs' = [procs EXCEPT ![p] = Idle]
    /\ UNCHANGED <<db, stores>>

-----------------------------------------------------------------------------
(* Specifications *)

NoResponse == Respond("none", 0, "")

\* the process starts with or without a store handle, on an empty store
Init ==
    /\ db \in {"None", "Connected"}
    /\ collections = {}
    /\ restaurant = <<>>
    /\ menuitem = <<>>
    /\ order = <<>>
    /\ response = NoResponse
    /\ procs = [p \in 1..NProcs |-> Idle]

\* catalog documents written before the process started
PreRestaurants == [name : {"Pasta Palace", "House Diner"}, cuisine : {"Italian"}]

PreRefs == { StrOid(ObjectIdOf("restaurant", 1)),
             StrOid(ObjectIdOf("restaurant", 3)), "not-an-id" }

PreMenuItems == [restaurant_id : PreRefs, name : {"Spaghetti Carbonara"},
                 price : {14990}]

DocLists(S, n) == UNION { [1..k -> S] : k \in 0..n }

\* the process starts on a store that already holds any small catalog; a
\* collection that holds documents is listed, an empty one may be
InitAny ==
    /\ db \in {"None", "Connected"}
    /\ \E rs \in DocLists(PreRestaurants, MaxPre),
          ms \in DocLists(PreMenuItems, MaxPre) :
          /\ db = "None" => rs = <<>> /\ ms = <<>>
          /\ restaurant = InsertAll(<<>>, "restaurant", rs, Len(rs))
          /\ menuitem = InsertAll(<<>>, "menuitem", ms, Len(ms))
    /\ collections \in SUBSET {"restaurant", "menuitem"}
    /\ restaurant # <<>> => "restaurant" \in collections
    /\ menuitem # <<>> => "menuitem" \in collections
    /\ db = "None" => collections = {}
    /\ order = <<>>
    /\ response = NoResponse
    /\ procs = [p \in 1..NProcs |-> Idle]

InitConc ==
    /\ db = "Connected"
    /\ collections = {}
    /\ restaurant = <<>>
    /\ menuitem = <<>>
    /\ order = <<>>
    /\ response = NoResponse
    /\ procs = [p \in 1..NProcs |-> Idle]

NextStatic == read_root \/ test_database \/ get_schema

NextCatalog ==
    \/ list_restaurants
    \/ \E rid \in MenuQueries : list_menu(rid)
    \/ \E budget \in 0..SeedCalls : seed_data(budget)

\* every endpoint, one request at a time
Next ==
    \/ NextStatic
    \/ NextCatalog
    \/ \E payload \in CatalogPayloads : create_order(payload)

NextOrders ==
    \/ NextStatic
    \/ \E payload \in Payloads : create_order(payload)

NextConc ==
    \E p \in 1..NProcs :
        \/ SeedBegin(p)
        \/ SeedCheckRestaurants(p)
        \/ SeedInsertRestaurant(p)
        \/ SeedCheckMenu(p)
        \/ SeedFindRestaurants(p)
        \/ SeedInsertMenuItem(p)
        \/ SeedReturn(p)

Spec == Init /\ [][Next]_vars

SpecAny == InitAny /\ [][NextCatalog]_vars

SpecOrders == Init /\ [][NextOrders]_vars

SpecConc == InitConc /\ [][NextConc]_vars

-----------------------------------------------------------------------------
(* Properties *)

Abs(x) == IF x < 0 THEN -x ELSE x

\* the exact sum of price x quantity over the lines of an order
RECURSIVE LineSum(_)
LineSum(items) ==
    IF items = <<>> THEN 0
    ELSE Head(items).price * Head(items).quantity + LineSum(Tail(items))

\* t is x rounded to two decimal places
IsRounded(t, x) ==
    /\ t % 10 = 0
    /\ Abs(t - x) <= 5
    /\ Abs(t - x) = 5 => (t \div 10) % 2 = 0

\* C1: every persisted order's total is the sum over its items of
\* price x quantity rounded to two decimal places, and the total returned
\* for a created order is the total persisted for it.
C1_TotalIsRoundedSum ==
    /\ \A i \in 1..Len(order) :
          IsRounded(order[i].total, LineSum(order[i].items))
    /\ response.op = "create_order" /\ response.status = 200 =>
          \E i \in 1..Len(order) :
              /\ response.body.order_id = StrOid(order[i]._id)
              /\ response.body.total = order[i].total
              /\ response.body.status = order[i].status

\* C1 witness: an order of two lines whose sum needed rounding was created
C1_Witness ==
    /\ response.op = "create_order" /\ response.status = 200
    /\ Len(order) >= 1
    /\ Len(order[1].items) = 2
    /\ order[1].items[1].quantity = 2
    /\ LineSum(order[1].items) % 10 # 0

\* C2: with a store handle, a create-order request whose item list is empty
\* or holds an item of quantity 0 is answered with a validation failure and
\* changes no collection.
C2_EmptyOrZeroQuantityRejected ==
    [][\A payload \in Payloads :
          ( /\ db = "Connected"
            /\ create_order(payload)
            /\ \/ payload.items = <<>>
               \/ \E i \in 1..Len(payload.items) : payload.items[i].quantity = 0 )
          => (response'.status = 422 /\ UNCHANGED stores)]_vars

\* C3: with a store handle, a create-order request holding an item of
\* negative price is answered with a validation failure and changes no
\* collection.
C3_NegativePriceRejected ==
    [][\A payload \in Payloads :
          ( /\ db = "Connected"
            /\ create_order(payload)
            /\ \E i \in 1..Len(payload.items) : payload.items[i].price < 0 )
          => (response'.status = 422 /\ UNCHANGED stores)]_vars

\* no two documents of the collection carry the same name
DupFree(coll) ==
    \A i, j \in 1..Len(coll) : coll[i].name = coll[j].name => i = j

\* C4: a seed call adds no duplicate to a catalog collection that had none,
\* and a seed call on a store whose restaurant and menu item collections
\* both hold documents reports zero inserted for both and changes neither.
C4_SeedIdempotent ==
    [][\A budget \in 0..SeedCalls :
          seed_data(budget) =>
             /\ DupFree(restaurant) => DupFree(restaurant')
             /\ DupFree(menuitem) => DupFree(menuitem')
             /\ (restaurant # <<>> /\ menuitem # <<>>) =>
                   /\ response' = Respond("seed", 200,
                                      [restaurants |-> 0, menuitem |-> 0])
                   /\ UNCHANGED <<restaurant, menuitem>>]_vars

\* C4 witness: a seed call found both collections filled by an earlier one
C4_Witness ==
    /\ response = Respond("seed", 200, [restaurants |-> 0, menuitem |-> 0])
    /\ Len(restaurant) = Len(SampleRestaurants)
    /\ Len(menuitem) = Len(SampleMenuNames)
    /\ restaurant[1].name = "Pasta Palace"

\* C5: starting from the empty store, every stored menu item's restaurant
\* reference is the identifier text of a stored restaurant.
C5_MenuLinkage ==
    \A i \in 1..Len(menuitem) :
        \E j \in 1..Len(restaurant) :
            menuitem[i].restaurant_id = StrOid(restaurant[j]._id)

\* C5 witness: the menu was seeded while fewer than three restaurants existed
C5_Witness ==
    /\ Len(menuitem) = Len(SampleMenuNames)
    /\ Len(restaurant) = 1
    /\ response.op = "seed" /\ response.status = 200

\* C6: a seed call that fails right after the restaurants leaves restaurants
\* and no menu items; a seed call that then runs to completion on
\* restaurants and no menu items inserts no restaurant and the four sample
\* menu items.
C6_PartialSeedHeals ==
    [][\A budget \in 0..SeedCalls :
          (db = "Connected" /\ seed_data(budget)) =>
             /\ (restaurant = <<>> /\ menuitem = <<>>
                    /\ budget = Len(SampleRestaurants)) =>
                   /\ Len(restaurant') = Len(SampleRestaurants)
                   /\ menuitem' = <<>>
                   /\ response'.status = 500
             /\ (restaurant # <<>> /\ menuitem = <<>>
                    /\ response'.status = 200) =>
                   /\ restaurant' = restaurant
                   /\ response'.body = [restaurants |-> 0, menuitem |-> 4]
                   /\ [i \in 1..Len(menuitem') |-> menuitem'[i].name]
                         = SampleMenuNames]_vars

\* C6 witness: the menu was completed by a seed call that found restaurants
C6_Witness ==
    /\ response = Respond("seed", 200, [restaurants |-> 0, menuitem |-> 4])
    /\ Len(restaurant) = Len(SampleRestaurants)
    /\ Len(menuitem) = Len(SampleMenuNames)

Unavailable(op) == Respond(op, 500, "Database not configured")

\* C7: without a store handle, seed and a well-formed create-order request
\* are answered "Database not configured" and write nothing, and liveness,
\* diagnostics and schema are answered 200.
C7_UnavailableFailsFast ==
    [][db = "None" =>
          /\ \A budget \in 0..SeedCalls :
                seed_data(budget) =>
                    (response' = Unavailable("seed") /\ UNCHANGED stores)
          /\ \A payload \in CatalogPayloads :
                (create_order(payload) /\ CreateOrderValid(payload)) =>
                    (response' = Unavailable("create_order") /\ UNCHANGED stores)
          /\ (read_root \/ test_database \/ get_schema) =>
                    (response'.status = 200 /\ UNCHANGED stores)]_vars

\* C7 witness: a seed request was refused for want of a store handle
C7_Witness ==
    /\ db = "None"
    /\ response = Unavailable("seed")

\* the stored menu items whose restaurant reference is the string rid
Matching(rid) == { i \in 1..Len(menuitem) : menuitem[i].restaurant_id = rid }

\* C8: with a store handle, listing the menu for any string, well formed as
\* an identifier or not, succeeds, changes no collection and returns exactly
\* the stored menu items whose restaurant reference equals that string.
C8_MenuFilter ==
    [][\A rid \in MenuQueries :
          (db = "Connected" /\ list_menu(rid)) =>
             /\ response'.status = 200
             /\ UNCHANGED stores
             /\ Len(response'.body) = Cardinality(Matching(rid))
             /\ \A i \in Matching(rid) :
                   \E k \in 1..Len(response'.body) :
                       response'.body[k] = stringify_id(menuitem[i])
             /\ \A k \in 1..Len(response'.body) :
                   response'.body[k].restaurant_id = rid]_vars

\* C8 witness: a listing for a malformed identifier returned some of the
\* stored menu items and left others out
C8_Witness ==
    /\ response.op = "list_menu" /\ response.status = 200
    /\ Len(response.body) >= 1
    /\ Len(response.body) < Len(menuitem)
    /\ response.body[1].restaurant_id = "not-an-id"

\* the restaurant references of the menu items from position k on
RefsFrom(coll, k) == [i \in 1..(Len(coll) - k) |-> coll[k + i].restaurant_id]

\* C9: a completed seed call that finds no menu items and leaves n >= 1
\* restaurants inserts four menu items referencing the first, the first, the
\* second (the first if n = 1) and the third (the first if n <= 2)
\* restaurant; on the empty store it creates 3 restaurants and 4 menu items,
\* 2 of them on the first restaurant's menu.
C9_SeedDistribution ==
    [][\A budget \in 0..SeedCalls :
          ( /\ db = "Connected"
            /\ seed_data(budget)
            /\ response'.status = 200
            /\ NeedsSeed(collections, "menuitem", menuitem)
            /\ Len(restaurant') >= 1 ) =>
             LET n  == Len(restaurant')
                 id(k) == StrOid(restaurant'[k]._id)
             IN  /\ response'.body.menuitem = 4
                 /\ Len(menuitem') = Len(menuitem) + 4
                 /\ RefsFrom(menuitem', Len(menuitem)) =
                       << id(1), id(1),
                          IF n > 1 THEN id(2) ELSE id(1),
                          IF n > 2 THEN id(3) ELSE id(1) >>
                 /\ (restaurant = <<>> /\ menuitem = <<>>) =>
                       /\ response'.body.restaurants = 3
                       /\ n = 3
                       /\ Len(menuitem') = 4
                       /\ Cardinality({ i \in 1..Len(menuitem') :
                              menuitem'[i].restaurant_id = id(1) }) = 2]_vars

\* C9 witness: the menu was seeded on exactly two restaurants
C9_Witness ==
    /\ response.op = "seed" /\ response.status = 200
    /\ response.body.menuitem = 4
    /\ Len(restaurant) = 2
    /\ menuitem[Len(menuitem)].restaurant_id = StrOid(restaurant[1]._id)
    /\ menuitem[Len(menuitem) - 1].restaurant_id = StrOid(restaurant[2]._id)

\* C10: under any interleaving of seed requests on an initially empty store,
\* the restaurant collection never holds more than three documents and the
\* menu item collection never more than four.
C10_NoDuplicatesUnderInterleaving ==
    /\ Len(restaurant) <= Len(SampleRestaurants)
    /\ Len(menuitem) <= Len(SampleMenuNames)

=============================================================================
